---------------------------- MODULE Spec2Model ----------------------------
(***************************************************************************)
(* Model of the Jira -> Confluence release-artifact synchronisation        *)
(* (src/atlasian.py, src/main.py).  File names, titles and labels are      *)
(* sequences of one-character strings, so that the regular expression of   *)
(* parse_testfile_name, the substring test of get_attachment_predecessor   *)
(* and the exact-title test of file_exists are computed on the characters. *)
(***************************************************************************)
EXTENDS Integers, Sequences, FiniteSets, TLC

(***************************************************************************)
(* Characters                                                              *)
(***************************************************************************)
Digits == {"0", "1", "2", "3", "4", "5", "6", "7", "8", "9"}

DigitVal(c) ==
    CASE c = "0" -> 0 [] c = "1" -> 1 [] c = "2" -> 2 [] c = "3" -> 3
      [] c = "4" -> 4 [] c = "5" -> 5 [] c = "6" -> 6 [] c = "7" -> 7
      [] c = "8" -> 8 [] c = "9" -> 9

UpperLetters == <<"A", "B", "C", "D", "E", "F", "G", "H", "I", "J", "K", "L", "M",
                  "N", "O", "P", "Q", "R", "S", "T", "U", "V", "W", "X", "Y", "Z">>

LowerLetters == <<"a", "b", "c", "d", "e", "f", "g", "h", "i", "j", "k", "l", "m",
                  "n", "o", "p", "q", "r", "s", "t", "u", "v", "w", "x", "y", "z">>

IsUpper(c) == \E k \in 1..Len(UpperLetters) : UpperLetters[k] = c

IsLower(c) == \E k \in 1..Len(LowerLetters) : LowerLetters[k] = c

IsLetter(c) == IsUpper(c) \/ IsLower(c)

\* str.lower() on one character
LowerChar(c) ==
    IF IsUpper(c)
    THEN LowerLetters[CHOOSE k \in 1..Len(UpperLetters) : UpperLetters[k] = c]
    ELSE c

\* str.upper() on one character
UpperChar(c) ==
    IF IsLower(c)
    THEN UpperLetters[CHOOSE k \in 1..Len(LowerLetters) : LowerLetters[k] = c]
    ELSE c

\* str.lower() / str.upper()
Lower(s) == [k \in 1..Len(s) |-> LowerChar(s[k])]

Upper(s) == [k \in 1..Len(s) |-> UpperChar(s[k])]

\* two characters match under re.IGNORECASE
IEq(a, b) == LowerChar(a) = LowerChar(b)

\* the literal lit matches s at position pos (re.IGNORECASE)
MatchLit(s, pos, lit) ==
    /\ pos + Len(lit) - 1 <= Len(s)
    /\ \A k \in 1..Len(lit) : IEq(s[pos + k - 1], lit[k])

\* the literal lit occurs in s at position pos, case-sensitively
OccursAt(s, pos, lit) ==
    /\ pos + Len(lit) - 1 <= Len(s)
    /\ \A k \in 1..Len(lit) : s[pos + k - 1] = lit[k]

\* Python's "sub in s" on strings
Contains(s, sub) == \E pos \in 1..(Len(s) + 1) : OccursAt(s, pos, sub)

\* position after the longest run of digits of s that starts at pos (\d+ is greedy)
RECURSIVE DigitsEnd(_, _)
DigitsEnd(s, pos) ==
    IF pos <= Len(s) /\ s[pos] \in Digits THEN DigitsEnd(s, pos + 1) ELSE pos

\* int() of a run of digits
RECURSIVE Number(_)
Number(ds) ==
    IF ds = <<>> THEN 0
    ELSE 10 * Number(SubSeq(ds, 1, Len(ds) - 1)) + DigitVal(ds[Len(ds)])

(***************************************************************************)
(* parse_testfile_name                                                     *)
(***************************************************************************)
LitPrefix == <<"N","T","G","7","_","M","o","d","u","l","e","_","T","e","s","t","_">>

LitStar == <<"S","t","a","r","_">>

LitRsu == <<"r","s","u">>

LitHu == <<"h","u">>

LitCodd == <<"c","o","d","d">>

LitXlsx == <<"x","l","s","x">>

\* the value None of a group that did not take part in the match
None == <<>>

\* (Star_\d+)? : position after the group, or pos when the group is absent
StarEnd(s, pos) ==
    IF MatchLit(s, pos, LitStar) /\ DigitsEnd(s, pos + Len(LitStar)) > pos + Len(LitStar)
    THEN DigitsEnd(s, pos + Len(LitStar))
    ELSE pos

\* _? : position after the optional underscore
OptUnderscoreEnd(s, pos) ==
    IF pos <= Len(s) /\ s[pos] = "_" THEN pos + 1 ELSE pos

\* (rsu|hu|codd) : position after the module, or 0 when none matches
ModuleEnd(s, pos) ==
    IF MatchLit(s, pos, LitRsu) THEN pos + Len(LitRsu)
    ELSE IF MatchLit(s, pos, LitHu) THEN pos + Len(LitHu)
    ELSE IF MatchLit(s, pos, LitCodd) THEN pos + Len(LitCodd)
    ELSE 0

\* ([A-Z]\d+\.\d+) : position after the release code, or 0
ReleaseEnd(s, pos) ==
    LET d1 == DigitsEnd(s, pos + 1)
        d2 == DigitsEnd(s, d1 + 1)
    IN  IF /\ pos <= Len(s) /\ IsLetter(s[pos])
           /\ d1 > pos + 1
           /\ d1 <= Len(s) /\ s[d1] = "."
           /\ d2 > d1 + 1
        THEN d2
        ELSE 0

\* (\d{4}-\d{2}-\d{2}) : position after the date, or 0
DateEnd(s, pos) ==
    IF /\ pos + 9 <= Len(s)
       /\ \A k \in {0, 1, 2, 3, 5, 6, 8, 9} : s[pos + k] \in Digits
       /\ s[pos + 4] = "-" /\ s[pos + 7] = "-"
    THEN pos + 10
    ELSE 0

\* (v\d+\.\d+\.\d+\.?\d?) matches the whole of v
IsVersion(v) ==
    LET d1 == DigitsEnd(v, 2)
        d2 == DigitsEnd(v, d1 + 1)
        d3 == DigitsEnd(v, d2 + 1)
    IN  /\ Len(v) >= 1 /\ IEq(v[1], "v")
        /\ d1 > 2
        /\ d1 <= Len(v) /\ v[d1] = "."
        /\ d2 > d1 + 1
        /\ d2 <= Len(v) /\ v[d2] = "."
        /\ d3 > d2 + 1
        /\ \/ d3 = Len(v) + 1
           \/ d3 = Len(v) /\ v[d3] = "."
           \/ d3 = Len(v) - 1 /\ v[d3] = "." /\ v[d3 + 1] \in Digits

\* .xlsx$ : any one character, then xlsx, at the end of the name
IsExtension(e) == Len(e) = 5 /\ MatchLit(e, 2, LitXlsx)

\* the groups of a match whose parts end before positions p2 .. p6 (0 for a part
\* that does not match); the version is what lies between the date and ".xlsx$"
Groups(s, p1, p2, p3, p4, p5, p6) ==
    IF /\ p4 # 0
       /\ p4 <= Len(s) /\ s[p4] = "_"
       /\ p5 # 0
       /\ p5 <= Len(s) /\ s[p5] = "_"
       /\ p6 # 0
       /\ p6 <= Len(s) /\ s[p6] = "_"
       /\ Len(s) - 5 >= p6 + 1
       /\ IsVersion(SubSeq(s, p6 + 1, Len(s) - 5))
       /\ IsExtension(SubSeq(s, Len(s) - 4, Len(s)))
    THEN [matched      |-> TRUE,
          star         |-> IF p2 > p1 THEN SubSeq(s, p1, p2 - 1) ELSE None,
          module       |-> SubSeq(s, p3, p4 - 1),
          full_release |-> SubSeq(s, p4 + 1, Len(s) - 5),
          release      |-> SubSeq(s, p4 + 1, p5 - 1),
          date         |-> SubSeq(s, p5 + 1, p6 - 1),
          version      |-> SubSeq(s, p6 + 1, Len(s) - 5)]
    ELSE [matched |-> FALSE]

MatchDate(s, p1, p2, p3, p4, p5) == Groups(s, p1, p2, p3, p4, p5, DateEnd(s, p5 + 1))

MatchRelease(s, p1, p2, p3, p4) == MatchDate(s, p1, p2, p3, p4, ReleaseEnd(s, p4 + 1))

MatchModule(s, p1, p2, p3) == MatchRelease(s, p1, p2, p3, ModuleEnd(s, p3))

MatchStar(s, p1, p2) == MatchModule(s, p1, p2, OptUnderscoreEnd(s, p2))

\* re.search(pattern, file_name): the pattern is matched part by part from "^"
MatchPattern(file_name) ==
    IF MatchLit(file_name, 1, LitPrefix)
    THEN MatchStar(file_name, Len(LitPrefix) + 1, StarEnd(file_name, Len(LitPrefix) + 1))
    ELSE [matched |-> FALSE]

IsLeap(y) == (y % 4 = 0 /\ y % 100 # 0) \/ y % 400 = 0

DaysInMonth(y, m) ==
    IF m = 2 THEN (IF IsLeap(y) THEN 29 ELSE 28)
    ELSE IF m \in {4, 6, 9, 11} THEN 30
    ELSE 31

\* the calendar date <<y, m, d>>, or None when there is no such date
CalendarDate(y, m, d) ==
    IF y >= 1 /\ m >= 1 /\ m <= 12 /\ d >= 1 /\ d <= DaysInMonth(y, m)
    THEN <<y, m, d>>
    ELSE None

\* datetime.strptime(text, "%Y-%m-%d") on text of the shape \d{4}-\d{2}-\d{2};
\* None stands for the ValueError it raises
Strptime(text) ==
    CalendarDate(Number(SubSeq(text, 1, 4)), Number(SubSeq(text, 6, 7)),
                 Number(SubSeq(text, 9, 10)))

\* ">=" in the place of ">"
DateGreaterOrEqual(a, b) ==
    \/ a[1] > b[1]
    \/ a[1] = b[1] /\ a[2] > b[2]
    \/ a[1] = b[1] /\ a[2] = b[2] /\ a[3] >= b[3]

\* datetime's ">" on two dates
DateGreater(a, b) ==
    \/ a[1] > b[1]
    \/ a[1] = b[1] /\ a[2] > b[2]
    \/ a[1] = b[1] /\ a[2] = b[2] /\ a[3] > b[3]

\* lines 46-56 of parse_testfile_name: the result for the match and its date
ParseResult(search, date) ==
    IF ~search.matched THEN [kind |-> "none"]
    ELSE IF date = None THEN [kind |-> "raise"]
    ELSE [kind         |-> "ok",
          star         |-> search.star,
          module       |-> search.module,
          full_release |-> search.full_release,
          release      |-> search.release,
          date         |-> date,
          version      |-> search.version]

SearchDate(search) == IF search.matched THEN Strptime(search.date) ELSE None

ParseSearch(search) == ParseResult(search, SearchDate(search))

\* parse_testfile_name: kind "none" is the return value None, kind "raise" the
\* ValueError of strptime, kind "ok" the returned dict
parse_testfile_name(file_name) == ParseSearch(MatchPattern(file_name))

(***************************************************************************)
(* Label catalog: Confluence.get_current_labels                            *)
(***************************************************************************)
LitCurrent == <<" ","(","c","u","r","r","e","n","t",")",":">>

LabelLatest == <<"l","a","t","e","s","t">>

LitStarMarker == <<"s","t","a","r">>

\* str.replace(old, new) for one-character old and new
Replace(s, old, new) == [k \in 1..Len(s) |-> IF s[k] = old THEN new ELSE s[k]]

\* re.compile(".*\s\(current\):$") finds a match in the text of a <p> block
IsCurrentParagraph(p) ==
    /\ Len(p) >= Len(LitCurrent)
    /\ OccursAt(p, Len(p) - Len(LitCurrent) + 1, LitCurrent)

\* group 1 of "^(.*) \(current\).*$", lower-cased, "-" and " " replaced by "_"
LabelOfParagraph(p) ==
    Replace(Replace(Lower(SubSeq(p, 1, Len(p) - Len(LitCurrent))), "-", "_"), " ", "_")

\* get_current_labels on the <p> texts of the page; the caller raises on <<>>
get_current_labels(page_body) ==
    LET tag_strings == SelectSeq(page_body, IsCurrentParagraph)
    IN  [k \in 1..Len(tag_strings) |-> LabelOfParagraph(tag_strings[k])]

(***************************************************************************)
(* State                                                                   *)
(***************************************************************************)
VARIABLES
    page,               \* texts of the <p> blocks of the Confluence page
    store,              \* attachments of the page as Confluence holds them
    issues,             \* file names of the attachments of the issues Jira returns
    pc,                 \* position of the run
    idx,                \* index in issues of the attachment being processed
    file_name,          \* the attachment being processed
    current_labels,     \* Confluence.current_labels
    attachments,        \* Confluence.attachments
    attachment_titles,  \* Confluence.attachment_titles
    verdict,            \* outcome of file_eligible_for_upload(file_name)
    predecessor_name,   \* local of send_and_label_attachment
    attachment_id,      \* local of send_and_label_attachment, 0 for no id
    retry,              \* local of add_label
    label_was_added,    \* what add_label returned: "True", "False", "" before
    requests,           \* requests sent for file_name, in order
    all_ok              \* no remote call of this run has failed

vars == <<page, store, issues, pc, idx, file_name, current_labels, attachments,
          attachment_titles, verdict, predecessor_name, attachment_id, retry,
          label_was_added, requests, all_ok>>

(***************************************************************************)
(* Confluence: queries on the attachments fetched at construction          *)
(***************************************************************************)
\* parse_attachment_labels
parse_attachment_labels(attachment) == attachment.labels

\* search_attachments_by_label
search_attachments_by_label(labels) ==
    SelectSeq(attachments, LAMBDA a : labels \subseteq parse_attachment_labels(a))

\* search_attachment_by_name; callers pass a title that is present
search_attachment_by_name(name) ==
    SelectSeq(attachments, LAMBDA a : a.title = name)[1]

Titles(atts) == [k \in 1..Len(atts) |-> atts[k].title]

\* get_latest_labeled_attachments, for the labels from position k on
RECURSIVE LatestFrom(_)
LatestFrom(k) ==
    IF k > Len(current_labels) THEN <<>>
    ELSE Titles(search_attachments_by_label({current_labels[k], LabelLatest}))
            \o LatestFrom(k + 1)

get_latest_labeled_attachments == LatestFrom(1)

\* file_exists without the fetched titles: no file is on the page
file_exists_nowhere(name) == FALSE

\* file_exists
file_exists(name) == \E k \in 1..Len(attachment_titles) : attachment_titles[k] = name

\* lines 422-425 of date_is_newer on the two parse results; raised stands for the
\* TypeError of None['date'] and for the ValueError of strptime
CompareDates(new, old) ==
    IF new.kind # "ok" \/ old.kind # "ok"
    THEN [raised |-> TRUE, value |-> FALSE]
    ELSE [raised |-> FALSE, value |-> DateGreater(new.date, old.date)]

\* date_is_newer
date_is_newer(to_be_uploaded, existing) ==
    CompareDates(parse_testfile_name(to_be_uploaded), parse_testfile_name(existing))

\* lines 462-464 of get_attachment_predecessor: the search prefix
PrefixOf(parsed_file) ==
    LitPrefix
        \o (IF parsed_file.star # None THEN parsed_file.star \o <<"_">> ELSE <<>>)
        \o Upper(parsed_file.module)

SearchPrefix(name) == PrefixOf(parse_testfile_name(name))

\* lines 466-470 of get_attachment_predecessor: the last title that contains the
\* prefix; <<>> is the empty string
LastContaining(titles, search_prefix) ==
    IF \E k \in 1..Len(titles) : Contains(titles[k], search_prefix)
    THEN titles[CHOOSE k \in 1..Len(titles) :
                    /\ Contains(titles[k], search_prefix)
                    /\ \A j \in (k + 1)..Len(titles) : ~Contains(titles[j], search_prefix)]
    ELSE <<>>

\* get_attachment_predecessor, for a name that parses
get_attachment_predecessor(name) ==
    LastContaining(get_latest_labeled_attachments, SearchPrefix(name))

MsgMismatch == "File name doesn't match the pattern"

MsgExists == "File exists"

MsgNoPredecessor == "No predecessor"

MsgNewer == "File is newer"

MsgOlder == "Uploaded file is newer"

\* outcome of file_eligible_for_upload: the value returned and the message printed,
\* or raised; consulted tells whether get_attachment_predecessor was called
Returned(value, message, consulted) ==
    [raised |-> FALSE, accepted |-> value, printed |-> message, consulted |-> consulted]

Raised(consulted) ==
    [raised |-> TRUE, accepted |-> FALSE, printed |-> "", consulted |-> consulted]

NoVerdict == [raised |-> FALSE, accepted |-> FALSE, printed |-> "", consulted |-> FALSE]

\* file_eligible_for_upload, lines 445-450
CheckDate(newer) ==
    IF newer.raised THEN Raised(TRUE)
    ELSE IF newer.value THEN Returned(TRUE, MsgNewer, TRUE)
    ELSE Returned(FALSE, MsgOlder, TRUE)

\* file_eligible_for_upload, lines 442-444
CheckPredecessor(name, predecessor_file) ==
    IF predecessor_file = <<>> THEN Returned(TRUE, MsgNoPredecessor, TRUE)
    ELSE CheckDate(date_is_newer(name, predecessor_file))

\* lines 435-441 without the file_exists test
CheckNameWithoutExists(name, parsed) ==
    IF parsed.kind = "raise" THEN Raised(FALSE)
    ELSE IF parsed.kind = "none" THEN Returned(FALSE, MsgMismatch, FALSE)
    ELSE CheckPredecessor(name, get_attachment_predecessor(name))

\* file_eligible_for_upload, lines 435-441
CheckName(name, parsed) ==
    IF parsed.kind = "raise" THEN Raised(FALSE)
    ELSE IF parsed.kind = "none" THEN Returned(FALSE, MsgMismatch, FALSE)
    ELSE IF file_exists(name) THEN Returned(FALSE, MsgExists, FALSE)
    ELSE CheckPredecessor(name, get_attachment_predecessor(name))

\* file_eligible_for_upload
file_eligible_for_upload(name) == CheckName(name, parse_testfile_name(name))

\* the labels of current_labels that contain "star", and those that do not
StarLabels == SelectSeq(current_labels, LAMBDA l : Contains(l, LitStarMarker))

PlainLabels == SelectSeq(current_labels, LAMBDA l : ~Contains(l, LitStarMarker))

\* lines 552-555 without the test of the variant: the first active label
MainLabelsOfAny(parsed_file_name) ==
    current_labels

\* the candidates for main_label in send_and_label_attachment; [0] of <<>> raises
MainLabelsOf(parsed_file_name) ==
    IF parsed_file_name.star # None THEN StarLabels ELSE PlainLabels

MainLabels(name) == MainLabelsOf(parse_testfile_name(name))

\* the label list send_and_label_attachment passes to add_label
LabelListOf(parsed_file_name) ==
    <<MainLabelsOf(parsed_file_name)[1], Lower(parsed_file_name.module), LabelLatest>>

LabelList(name) == LabelListOf(parse_testfile_name(name))

(***************************************************************************)
(* Inputs: page texts, file names of Jira attachments, attachments present *)
(* on the page before the first run                                        *)
(***************************************************************************)
\* "Star2 FUP4 (current):"
ParagraphStar ==
    <<"S","t","a","r","2"," ","F","U","P","4"," ","(","c","u","r","r","e","n","t",")",":">>

\* "NTG7 FUP-3 (current):"
ParagraphMain ==
    <<"N","T","G","7"," ","F","U","P","-","3"," ","(","c","u","r","r","e","n","t",")",":">>

\* "Archive:"
ParagraphOther ==
    <<"A","r","c","h","i","v","e",":">>

\* "star2_fup4"
LabelStar ==
    <<"s","t","a","r","2","_","f","u","p","4">>

\* "ntg7_fup_3"
LabelMain ==
    <<"n","t","g","7","_","f","u","p","_","3">>

\* "rsu"
LabelRsu ==
    <<"r","s","u">>

\* "NTG7_Module_Test_RSU_E444.303_2023-03-29_v700.208.1.xlsx"
NameNewer ==
    <<"N","T","G","7","_","M","o","d","u","l","e","_","T","e","s","t","_","R","S","U","_",
      "E","4","4","4",".","3","0","3","_","2","0","2","3","-","0","3","-","2","9","_","v",
      "7","0","0",".","2","0","8",".","1",".","x","l","s","x">>

\* "NTG7_Module_Test_rsu_E444.303_2023-03-29_v700.208.1.xlsx"
NameNewerLower ==
    <<"N","T","G","7","_","M","o","d","u","l","e","_","T","e","s","t","_","r","s","u","_",
      "E","4","4","4",".","3","0","3","_","2","0","2","3","-","0","3","-","2","9","_","v",
      "7","0","0",".","2","0","8",".","1",".","x","l","s","x">>

\* "NTG7_Module_Test_RSU_E444.301_2023-02-01_v700.200.1.xlsx"
NameSameDate ==
    <<"N","T","G","7","_","M","o","d","u","l","e","_","T","e","s","t","_","R","S","U","_",
      "E","4","4","4",".","3","0","1","_","2","0","2","3","-","0","2","-","0","1","_","v",
      "7","0","0",".","2","0","0",".","1",".","x","l","s","x">>

\* "NTG7_Module_Test_RSU_E444.303_2023-02-30_v700.208.1.xlsx"
NameBadDate ==
    <<"N","T","G","7","_","M","o","d","u","l","e","_","T","e","s","t","_","R","S","U","_",
      "E","4","4","4",".","3","0","3","_","2","0","2","3","-","0","2","-","3","0","_","v",
      "7","0","0",".","2","0","8",".","1",".","x","l","s","x">>

\* "random_report.xlsx"
NameRandom ==
    <<"r","a","n","d","o","m","_","r","e","p","o","r","t",".","x","l","s","x">>

\* "NTG7_Module_Test_Star_2_codd_E444.303_2023-03-29_v700.208.1.xlsx"
NameStar ==
    <<"N","T","G","7","_","M","o","d","u","l","e","_","T","e","s","t","_","S","t","a","r",
      "_","2","_","c","o","d","d","_","E","4","4","4",".","3","0","3","_","2","0","2","3",
      "-","0","3","-","2","9","_","v","7","0","0",".","2","0","8",".","1",".","x","l","s",
      "x">>

\* "NTG7_Module_Test_RSU_E444.300_2023-02-01_v700.200.0.xlsx"
TitlePredecessor ==
    <<"N","T","G","7","_","M","o","d","u","l","e","_","T","e","s","t","_","R","S","U","_",
      "E","4","4","4",".","3","0","0","_","2","0","2","3","-","0","2","-","0","1","_","v",
      "7","0","0",".","2","0","0",".","0",".","x","l","s","x">>

\* "NTG7_Module_Test_RSU_E444.300_2023-02-01_v700.200.0.pdf"
TitleReport ==
    <<"N","T","G","7","_","M","o","d","u","l","e","_","T","e","s","t","_","R","S","U","_",
      "E","4","4","4",".","3","0","0","_","2","0","2","3","-","0","2","-","0","1","_","v",
      "7","0","0",".","2","0","0",".","0",".","p","d","f">>

Pages == {<<ParagraphStar, ParagraphMain, ParagraphOther>>, <<ParagraphOther>>}

FileNames ==
    {NameNewer, NameNewerLower, NameSameDate, NameBadDate, NameRandom, NameStar}

Attachment(id, title, labels) == [id |-> id, title |-> title, labels |-> labels]

InitialStores ==
    { <<>>,
      <<Attachment(1, TitlePredecessor, {LabelMain, LabelRsu, LabelLatest})>>,
      <<Attachment(1, TitleReport, {LabelMain, LabelRsu, LabelLatest})>>,
      <<Attachment(1, TitlePredecessor, {LabelStar, LabelRsu, LabelLatest})>> }

\* longest list of attachments Jira returns for one run
MaxIssues == 2

\* most label-write requests followed within one call of add_label
MaxLabelWrites == 5

IssueLists == UNION {[1..n -> FileNames] : n \in 1..MaxIssues}

UploadAnswers == {"created", "no_id", "error"}

\* what the store can answer to the upload of a file called name: Confluence
\* refuses a file name the page already holds
StoreAnswers(atts, name) ==
    IF \E k \in 1..Len(atts) : atts[k].title = name THEN {"error"} ELSE UploadAnswers

StatusCodes == {200, 500, 403}

RemoveAnswers == {"removed", "failed"}

(***************************************************************************)
(* The remote store                                                        *)
(***************************************************************************)
\* the store after labels were added to the attachment with this id
WithLabels(atts, id, labels) ==
    [k \in 1..Len(atts) |->
        IF atts[k].id = id
        THEN [atts[k] EXCEPT !.labels = @ \cup labels]
        ELSE atts[k]]

\* the store after label was removed from the attachment with this id
WithoutLabel(atts, id, label) ==
    [k \in 1..Len(atts) |->
        IF atts[k].id = id
        THEN [atts[k] EXCEPT !.labels = @ \ {label}]
        ELSE atts[k]]

Range(seq) == {seq[k] : k \in 1..Len(seq)}

Count(seq, x) == Cardinality({k \in 1..Len(seq) : seq[k] = x})

(***************************************************************************)
(* Runs of main.py                                                         *)
(***************************************************************************)
Init ==
    /\ page \in Pages
    /\ store \in InitialStores
    /\ issues \in IssueLists
    /\ pc = "init"
    /\ idx = 1
    /\ file_name = <<>>
    /\ current_labels = <<>>
    /\ attachments = <<>>
    /\ attachment_titles = <<>>
    /\ verdict = NoVerdict
    /\ predecessor_name = <<>>
    /\ attachment_id = 0
    /\ retry = 0
    /\ label_was_added = ""
    /\ requests = <<>>
    /\ all_ok = TRUE

\* the for loops of main.py move on to the next attachment
NextAttachment ==
    /\ idx' = idx + 1
    /\ pc' = IF idx + 1 > Len(issues) THEN "done" ELSE "loop"

\* lines 326-327 left out: no UserWarning for an empty list of labels
ConstructedUnchecked(labels) ==
    /\ current_labels' = labels
    /\ attachments' = store
    /\ attachment_titles' = Titles(store)
    /\ pc' = "loop"

\* Confluence.__init__, lines 296-298, with the labels get_current_labels found:
\* it raises UserWarning for none, before get_attachments is called
Constructed(labels) ==
    IF labels = <<>>
    THEN /\ pc' = "fatal"
         /\ UNCHANGED <<current_labels, attachments, attachment_titles>>
    ELSE /\ current_labels' = labels
         /\ attachments' = store
         /\ attachment_titles' = Titles(store)
         /\ pc' = "loop"

\* Confluence.__init__ and jira.get_recently_updated_release_tasks
Construct ==
    /\ pc = "init"
    /\ Constructed(get_current_labels(page))
    /\ idx' = 1
    /\ file_name' = <<>>
    /\ verdict' = NoVerdict
    /\ predecessor_name' = <<>>
    /\ attachment_id' = 0
    /\ retry' = 0
    /\ label_was_added' = ""
    /\ requests' = <<>>
    /\ all_ok' = TRUE
    /\ UNCHANGED <<page, store, issues>>

\* main.py, line 39, without the test of the verdict: every candidate whose
\* check returns is downloaded and sent
ProcessedWithoutTest(name, v) ==
    /\ file_name' = name
    /\ verdict' = v
    /\ IF v.raised
       THEN /\ pc' = "crashed"
            /\ requests' = <<>>
            /\ UNCHANGED <<idx, predecessor_name>>
       ELSE /\ pc' = "upload"
            /\ requests' = <<"download">>
            /\ predecessor_name' = IF parse_testfile_name(name).kind = "ok"
                                   THEN get_attachment_predecessor(name)
                                   ELSE <<>>
            /\ UNCHANGED idx

\* line 539 left out: the predecessor is not resolved before the upload
ProcessedUnresolved(name, v) ==
    /\ file_name' = name
    /\ verdict' = v
    /\ IF v.raised
       THEN /\ pc' = "crashed"
            /\ requests' = <<>>
            /\ UNCHANGED <<idx, predecessor_name>>
       ELSE IF v.accepted
       THEN /\ pc' = "upload"
            /\ requests' = <<"download">>
            /\ predecessor_name' = <<>>
            /\ UNCHANGED idx
       ELSE /\ NextAttachment
            /\ requests' = <<>>
            /\ UNCHANGED predecessor_name

\* main.py, lines 38-43, for the attachment name and the outcome v of its check:
\* when eligible it is downloaded and send_and_label_attachment resolves its
\* predecessor
Processed(name, v) ==
    /\ file_name' = name
    /\ verdict' = v
    /\ IF v.raised
       THEN /\ pc' = "crashed"
            /\ requests' = <<>>
            /\ UNCHANGED <<idx, predecessor_name>>
       ELSE IF v.accepted
       THEN /\ pc' = "upload"
            /\ requests' = <<"download">>
            /\ predecessor_name' = get_attachment_predecessor(name)
            /\ UNCHANGED idx
       ELSE /\ NextAttachment
            /\ requests' = <<>>
            /\ UNCHANGED predecessor_name

\* main.py: one pass of the loop over the attachments
ProcessAttachment ==
    /\ pc = "loop"
    /\ Processed(issues[idx], file_eligible_for_upload(issues[idx]))
    /\ attachment_id' = 0
    /\ retry' = 0
    /\ label_was_added' = ""
    /\ UNCHANGED <<page, store, issues, current_labels, attachments,
                   attachment_titles, all_ok>>

\* lines 544-546 left out: the promotion goes on without an attachment id
GoesOnWithoutId ==
    /\ pc' = IF MainLabels(file_name) = <<>> THEN "crashed" ELSE "label"
    /\ UNCHANGED idx

\* send_and_label_attachment, lines 544-546: "Failed to upload file", return None
StopWithoutId ==
    NextAttachment

\* add_page_attachment and the choice of main_label
Upload ==
    /\ pc = "upload"
    /\ requests' = Append(requests, "upload")
    /\ \E answer \in StoreAnswers(store, file_name) :
          CASE answer = "created" ->
                  \* results[0] has an id
                  /\ store' = Append(store, Attachment(Len(store) + 1, file_name, {}))
                  /\ attachment_id' = Len(store) + 1
                  /\ pc' = IF MainLabels(file_name) = <<>> THEN "crashed" ELSE "label"
                  /\ UNCHANGED <<idx, all_ok>>
            [] answer = "no_id" ->
                  \* results[0] has no id: "Failed to upload file"
                  /\ attachment_id' = 0
                  /\ all_ok' = FALSE
                  /\ StopWithoutId
                  /\ UNCHANGED store
            [] answer = "error" ->
                  \* an error body has no results: None[0] raises TypeError
                  /\ pc' = "crashed"
                  /\ all_ok' = FALSE
                  /\ UNCHANGED <<store, attachment_id, idx>>
    /\ UNCHANGED <<page, issues, file_name, current_labels, attachments,
                   attachment_titles, verdict, predecessor_name, retry, label_was_added>>

\* line 559 as "if predecessor_name:", without label_was_added
AddLabelReturnsUnchecked(code) ==
    /\ label_was_added' = IF code = 200 THEN "True" ELSE "False"
    /\ IF predecessor_name # <<>>
       THEN pc' = "demote" /\ UNCHANGED idx
       ELSE NextAttachment

\* add_label returns, and send_and_label_attachment goes on from line 558
AddLabelReturns(code) ==
    /\ label_was_added' = IF code = 200 THEN "True" ELSE "False"
    /\ IF code = 200 /\ predecessor_name # <<>>
       THEN pc' = "demote" /\ UNCHANGED idx
       ELSE NextAttachment

\* the store answers a label-write request for attachment_id with code
LabelWriteRequest(code) ==
    /\ requests' = Append(requests, "label")
    /\ store' = IF code = 200
                THEN WithLabels(store, attachment_id, Range(LabelList(file_name)))
                ELSE store
    /\ all_ok' = (all_ok /\ code = 200)

\* add_label: the first request
AddLabel ==
    /\ pc = "label"
    /\ \E code \in StatusCodes :
          /\ LabelWriteRequest(code)
          /\ IF code = 500
             THEN /\ retry' = 0
                  /\ pc' = "retry"
                  /\ UNCHANGED <<idx, label_was_added>>
             ELSE /\ AddLabelReturns(code)
                  /\ UNCHANGED retry
    /\ UNCHANGED <<page, issues, file_name, current_labels, attachments,
                   attachment_titles, verdict, predecessor_name, attachment_id>>

\* add_label: one pass of the loop "while retry < 3"
RetryLabel ==
    /\ pc = "retry"
    /\ Count(requests, "label") < MaxLabelWrites
    /\ \E code \in StatusCodes :
          /\ LabelWriteRequest(code)
          /\ retry' = IF code = 500 THEN retry + 1 ELSE retry
          /\ IF retry' < 3
             THEN UNCHANGED <<pc, idx, label_was_added>>
             ELSE AddLabelReturns(code)
    /\ UNCHANGED <<page, issues, file_name, current_labels, attachments,
                   attachment_titles, verdict, predecessor_name, attachment_id>>

\* send_and_label_attachment, lines 559-562: remove_label on the predecessor
Demote ==
    /\ pc = "demote"
    /\ requests' = Append(requests, "remove")
    /\ \E answer \in RemoveAnswers :
          /\ store' = IF answer = "removed"
                      THEN WithoutLabel(store, search_attachment_by_name(predecessor_name).id,
                                        LabelLatest)
                      ELSE store
          /\ all_ok' = (all_ok /\ answer = "removed")
    /\ NextAttachment
    /\ UNCHANGED <<page, issues, file_name, current_labels, attachments,
                   attachment_titles, verdict, predecessor_name, attachment_id, retry,
                   label_was_added>>

\* main.py is started again, after a run that ended or crashed: a new process,
\* the page and its attachments are as the last run left them
StartRun ==
    /\ pc \in {"done", "crashed"}
    /\ pc' = "init"
    /\ idx' = 1
    /\ file_name' = <<>>
    /\ current_labels' = <<>>
    /\ attachments' = <<>>
    /\ attachment_titles' = <<>>
    /\ verdict' = NoVerdict
    /\ predecessor_name' = <<>>
    /\ attachment_id' = 0
    /\ retry' = 0
    /\ label_was_added' = ""
    /\ requests' = <<>>
    /\ all_ok' = TRUE
    /\ UNCHANGED <<page, store, issues>>

Next ==
    \/ Construct
    \/ ProcessAttachment
    \/ Upload
    \/ AddLabel
    \/ RetryLabel
    \/ Demote
    \/ StartRun

Spec == Init /\ [][Next]_vars

(***************************************************************************)
(* Properties                                                              *)
(***************************************************************************)
\* the release line of a title that parses: variant and module, case-folded
ReleaseLineOf(parsed) == <<Lower(parsed.star), Lower(parsed.module)>>

\* whether two titles parse and are of the same release line
SameLine(a, b) ==
    /\ a.kind = "ok"
    /\ b.kind = "ok"
    /\ ReleaseLineOf(a) = ReleaseLineOf(b)

\* at most one attachment per release line carries latest
OneLatestPerLine(atts) ==
    \A i, j \in 1..Len(atts) :
        (/\ i < j
         /\ LabelLatest \in atts[i].labels
         /\ LabelLatest \in atts[j].labels)
            => ~SameLine(parse_testfile_name(atts[i].title), parse_testfile_name(atts[j].title))

\* the attachment with this id is in atts and carries label
HasLabel(atts, id, label) ==
    \E k \in 1..Len(atts) : atts[k].id = id /\ label \in atts[k].labels

\* the attachment with this id is in atts and carries no label
Unlabelled(atts, id) ==
    \E k \in 1..Len(atts) : atts[k].id = id /\ atts[k].labels = {}

\* no promotion is under way: the run is between two attachments or has ended
BetweenAttachments == pc \in {"loop", "done"}

\* a date as one number, for comparison
DateNumber(date) == date[1] * 10000 + date[2] * 100 + date[3]

\* C1: when the run started from attachments with at most one latest per release
\* line and no remote call of the run has failed, then after every completed
\* promotion at most one attachment per release line carries latest.
C1_OneLatestPerLine ==
    (BetweenAttachments /\ all_ok /\ OneLatestPerLine(attachments))
        => OneLatestPerLine(store)

\* C2: one promotion sends at most 4 label-write requests, whatever the label
\* service answers.
C2_AtMostFourLabelWrites == Count(requests, "label") <= 4

\* C3: when add_label has returned and a label-write of the promotion succeeded
\* (the uploaded attachment carries latest), add_label returned True, and when a
\* predecessor was found the removal of latest from it is issued.
C3_SuccessReturnsTrue ==
    (label_was_added # "" /\ HasLabel(store, attachment_id, LabelLatest))
        => /\ label_was_added = "True"
           /\ predecessor_name # <<>> => (pc = "demote" \/ "remove" \in Range(requests))

\* C4: no step of a promotion before the demotion changes an attachment other
\* than the uploaded one, and when add_label leaves its loop after 4 label-write
\* requests (the first one and 3 retries, all answered 500) it returns False, the
\* promotion ends without a remove-label request, and the uploaded attachment
\* has no label.
C4_FourFailuresNoDemotion ==
    [][/\ pc \in {"upload", "label", "retry"}
            => \A k \in 1..Len(store) :
                   store[k].id # attachment_id' => store'[k] = store[k]
       /\ (pc = "retry" /\ pc' # "retry" /\ Count(requests', "label") = 4)
            => /\ label_was_added' = "False"
               /\ BetweenAttachments'
               /\ "remove" \notin Range(requests')
               /\ Unlabelled(store', attachment_id')]_vars

\* C4, witness: add_label has returned False after 4 requests, and the
\* predecessor found before the upload carries latest.
C4_Witness ==
    /\ BetweenAttachments
    /\ retry = 3
    /\ Count(requests, "label") = 4
    /\ label_was_added = "False"
    /\ predecessor_name # <<>>
    /\ \E k \in 1..Len(store) :
          store[k].title = predecessor_name /\ LabelLatest \in store[k].labels

\* C5: the eligibility check of a file name that the page holds is always
\* rejected with "File exists".
C5_SecondSubmissionRejected ==
    [][(pc = "loop" /\ \E k \in 1..Len(store) : store[k].title = issues[idx])
            => verdict' = Returned(FALSE, MsgExists, FALSE)]_vars

\* file_eligible_for_upload has just returned or raised for file_name: nothing
\* but the download was requested for it since
JustChecked == file_name # <<>> /\ Len(requests) <= 1

\* a candidate that parses, and its predecessor that is found and parses
Compared(candidate, predecessor_file, predecessor) ==
    /\ candidate.kind = "ok"
    /\ ~file_exists(file_name)
    /\ predecessor_file # <<>>
    /\ predecessor.kind = "ok"

\* C6: a candidate that parses, is not on the page and has a predecessor is
\* accepted iff its date is strictly later than the predecessor's.
C6_AcceptedIffStrictlyLater ==
    JustChecked =>
        LET candidate        == parse_testfile_name(file_name)
            predecessor_file == get_attachment_predecessor(file_name)
            predecessor      == parse_testfile_name(predecessor_file)
        IN  Compared(candidate, predecessor_file, predecessor)
                => /\ ~verdict.raised
                   /\ verdict.accepted
                        <=> DateNumber(candidate.date) > DateNumber(predecessor.date)
                   /\ verdict.printed = IF verdict.accepted THEN MsgNewer ELSE MsgOlder

\* C6, witness: a candidate of the predecessor's date, with a higher build
\* version and another release tag, is rejected.
C6_Witness ==
    JustChecked /\
        LET candidate        == parse_testfile_name(file_name)
            predecessor_file == get_attachment_predecessor(file_name)
            predecessor      == parse_testfile_name(predecessor_file)
        IN  /\ Compared(candidate, predecessor_file, predecessor)
            /\ candidate.date = predecessor.date
            /\ candidate.version # predecessor.version
            /\ candidate.release # predecessor.release
            /\ ~verdict.accepted
            /\ verdict.printed = MsgOlder

\* the file name is, character for character, a title fetched at construction
ExactTitle(name) == \E k \in 1..Len(attachments) : attachments[k].title = name

\* the verdict on a name that parses and is no title: the predecessor decides
DecidedByPredecessor(predecessor_file) ==
    /\ verdict.consulted
    /\ verdict.printed # MsgExists
    /\ predecessor_file = <<>> => verdict = Returned(TRUE, MsgNoPredecessor, TRUE)
    /\ predecessor_file # <<>> => (verdict.raised \/ verdict.printed \in {MsgNewer, MsgOlder})

\* C7: the rules are applied in order and the first that applies decides: a
\* name that does not match is rejected for that; else a name that is exactly a
\* title is rejected as existing, and only then; else without predecessor it is
\* accepted; else the dates decide.  The predecessor is consulted only when
\* neither of the first two rules applies.
C7_RulesInOrder ==
    JustChecked =>
        LET candidate == parse_testfile_name(file_name)
        IN  /\ candidate.kind = "none" => verdict = Returned(FALSE, MsgMismatch, FALSE)
            /\ (candidate.kind = "ok" /\ ExactTitle(file_name))
                  => verdict = Returned(FALSE, MsgExists, FALSE)
            /\ (candidate.kind = "ok" /\ ~ExactTitle(file_name))
                  => DecidedByPredecessor(get_attachment_predecessor(file_name))

\* C7, witness: a name that is exactly a title is rejected as existing although
\* its date is later than that of the predecessor it would have.
C7_Witness ==
    /\ JustChecked
    /\ parse_testfile_name(file_name).kind = "ok"
    /\ ExactTitle(file_name)
    /\ get_attachment_predecessor(file_name) # <<>>
    /\ date_is_newer(file_name, get_attachment_predecessor(file_name)).value
    /\ verdict = Returned(FALSE, MsgExists, FALSE)

\* C8: a checked file name that deviates from the grammar, an impossible date
\* included, is rejected as a name mismatch and the run goes on.
C8_DeviationIsRejected ==
    (JustChecked /\ parse_testfile_name(file_name).kind # "ok")
        => /\ verdict = Returned(FALSE, MsgMismatch, FALSE)
           /\ pc # "crashed"

\* C9: the check of a file name that parses returns a verdict for every
\* snapshot, also when the predecessor it selects has a title that does not parse.
C9_VerdictForEverySnapshot ==
    (JustChecked /\ parse_testfile_name(file_name).kind = "ok")
        => ~verdict.raised

\* C10: the run does not halt on a failed promotion: it never crashes after an
\* upload request.
C10_FailedPromotionDoesNotHalt ==
    pc = "crashed" => "upload" \notin Range(requests)

\* C11: when the upload yields no attachment id the promotion stops there: the
\* step changes no attachment, the run goes to the next candidate (or ends, or
\* halts), and no label-write and no remove-label request is ever sent while
\* there is no attachment id.
C11_NoIdNoLabelling ==
    [][/\ (pc = "upload" /\ attachment_id' = 0)
            => /\ store' = store
               /\ pc' \in {"loop", "done", "crashed"}
               /\ Range(requests') \cap {"label", "remove"} = {}
       /\ (Len(requests') > Len(requests)
                /\ requests'[Len(requests')] \in {"label", "remove"})
            => attachment_id # 0]_vars

\* C11, witness: the upload of a candidate that has a predecessor yielded no id;
\* the run went on, and the predecessor carries latest.
C11_Witness ==
    /\ BetweenAttachments
    /\ requests = <<"download", "upload">>
    /\ attachment_id = 0
    /\ predecessor_name # <<>>
    /\ \E k \in 1..Len(store) :
          store[k].title = predecessor_name /\ LabelLatest \in store[k].labels

\* the attachment fetched at construction with this title carries these labels
TitleCarries(title, labels) ==
    \E k \in 1..Len(attachments) :
        attachments[k].title = title /\ labels \subseteq attachments[k].labels

\* C12: the predecessor resolved for a checked candidate carries latest and the
\* release-line label selected for the candidate's variant (the first active
\* label with the variant marker for a candidate with a variant, the first
\* without it otherwise).
C12_PredecessorCarriesSelectedLabel ==
    (JustChecked /\ parse_testfile_name(file_name).kind = "ok"
                 /\ MainLabels(file_name) # <<>>)
        => LET predecessor_file == get_attachment_predecessor(file_name)
           IN  predecessor_file # <<>>
                  => TitleCarries(predecessor_file,
                                  {MainLabels(file_name)[1], LabelLatest})

\* an attachment fetched at construction that carries latest and the label
\* selected for the candidate, and whose title is of the candidate's release line
SameLineLatest(candidate, selected_label) ==
    \E k \in 1..Len(attachments) :
        /\ {selected_label, LabelLatest} \subseteq attachments[k].labels
        /\ SameLine(candidate, parse_testfile_name(attachments[k].title))

\* C13: when the snapshot holds an attachment labelled latest (and with the
\* selected release-line label) whose variant and module equal the candidate's
\* up to letter case, get_attachment_predecessor returns an attachment of the
\* candidate's release line.
C13_LineIdentityIgnoresCase ==
    (JustChecked /\ parse_testfile_name(file_name).kind = "ok"
                 /\ MainLabels(file_name) # <<>>)
        => (SameLineLatest(parse_testfile_name(file_name), MainLabels(file_name)[1])
              => LET predecessor_file == get_attachment_predecessor(file_name)
                 IN  /\ predecessor_file # <<>>
                     /\ SameLine(parse_testfile_name(file_name),
                                 parse_testfile_name(predecessor_file)))

\* C14: a promotion never stays in the label-write retry step forever, whatever
\* the label service answers.  The loop "while retry < 3" reads nothing but retry
\* and the answer, and the service is free to repeat an answer, so the loop ends
\* for every sequence of answers iff every pass that stays in the loop brings
\* it nearer to its end: retry, bounded by 3, increases.
C14_RetryStepProgresses ==
    [][(pc = "retry" /\ pc' = "retry") => retry' > retry]_vars

\* the <p> texts of the page that match ".*\s\(current\):$"
CurrentParagraphs == SelectSeq(page, IsCurrentParagraph)

\* C15: the active labels of a constructed session are never empty: when the
\* page has no "(current):" paragraph, construction fails fatally, the
\* attachments are not fetched, no request is sent and no attachment changes;
\* otherwise the session holds one label per such paragraph.
C15_NoLabelsIsFatal ==
    [][/\ (pc = "init" /\ CurrentParagraphs = <<>>)
            => /\ pc' = "fatal"
               /\ attachments' = <<>>
               /\ attachment_titles' = <<>>
               /\ requests' = <<>>
               /\ store' = store
       /\ (pc = "init" /\ pc' # "fatal")
            => /\ current_labels' # <<>>
               /\ Len(current_labels') = Len(CurrentParagraphs)
       /\ pc = "fatal" => pc' = "fatal"]_vars

\* C15, witness: construction has failed on a page without "(current):"
\* paragraph that has an attachment; the attachments were not fetched.
C15_Witness ==
    /\ pc = "fatal"
    /\ CurrentParagraphs = <<>>
    /\ store # <<>>
    /\ attachments = <<>>
    /\ current_labels = <<>>

\* the requests of one promotion, in the order of send_and_label_attachment
RequestOrder == <<"download", "upload", "label", "remove">>

Rank(request) == CHOOSE k \in DOMAIN RequestOrder : RequestOrder[k] = request

\* C16: the requests of a promotion come in a fixed order: the download, one
\* upload, the label-writes, at most one removal.  The predecessor is resolved
\* when the upload is about to be sent; every label-write is for the uploaded
\* attachment; the removal of latest is sent only when the uploaded attachment
\* carries latest after a label-write.
C16_FixedOrder ==
    /\ \A i, j \in 1..Len(requests) :
          i < j => \/ Rank(requests[i]) < Rank(requests[j])
                   \/ requests[i] = "label" /\ requests[j] = "label"
    /\ pc = "upload" => predecessor_name = get_attachment_predecessor(file_name)
    /\ (pc \in {"label", "retry", "demote"} \/ "label" \in Range(requests))
          => /\ "upload" \in Range(requests)
             /\ \E k \in 1..Len(store) :
                   store[k].id = attachment_id /\ store[k].title = file_name
    /\ (pc = "demote" \/ "remove" \in Range(requests))
          => /\ "label" \in Range(requests)
             /\ label_was_added = "True"
             /\ HasLabel(store, attachment_id, LabelLatest)

\* C16, witness: a promotion has sent download, upload, one label-write and the
\* removal; the new attachment carries latest and the predecessor lost it.
C16_Witness ==
    /\ requests = RequestOrder
    /\ HasLabel(store, attachment_id, LabelLatest)
    /\ predecessor_name # <<>>
    /\ \E k \in 1..Len(store) :
          store[k].title = predecessor_name /\ LabelLatest \notin store[k].labels

\* the label sets a label-write for a candidate may carry: an active label that
\* contains the variant marker iff the candidate has a variant, the module in
\* lower case, and latest
ExpectedLabelSets(candidate) ==
    { {main_label, Lower(candidate.module), LabelLatest} :
        main_label \in {l \in Range(current_labels) :
                           Contains(l, LitStarMarker) <=> candidate.star # None} }

\* the labels of the attachment with this id
LabelsOf(atts, id) ==
    UNION {atts[k].labels : k \in {k \in 1..Len(atts) : atts[k].id = id}}

\* C17: with exactly one active label that contains the variant marker, every
\* label-write request of a promotion, the first and the retries, carries three
\* labels: the active label for the candidate's variant, the module in lower
\* case, and latest.  What a request carries shows in the store: a request
\* answered with a failure leaves the store as it is, and after any other the
\* uploaded attachment carries exactly these labels.
C17_ThreeLabels ==
    [][(/\ Len(requests') > Len(requests)
        /\ requests'[Len(requests')] = "label"
        /\ Cardinality({l \in Range(current_labels) : Contains(l, LitStarMarker)}) = 1)
          => \/ store' = store /\ label_was_added' # "True"
             \/ \E labels \in ExpectedLabelSets(parse_testfile_name(file_name)) :
                   /\ Cardinality(labels) = 3
                   /\ store' = WithLabels(store, attachment_id, labels)
                   /\ LabelsOf(store', attachment_id) = labels]_vars

\* C17, witness: the first label-write of a candidate with a variant was
\* answered 500, a retry was answered 200, and the uploaded attachment carries
\* the active label with the variant marker, its module and latest.
C17_Witness ==
    /\ pc = "retry"
    /\ Count(requests, "label") >= 2
    /\ parse_testfile_name(file_name).star # None
    /\ LabelsOf(store, attachment_id) = {LabelStar, Lower(parse_testfile_name(file_name).module), LabelLatest}

\* the snapshot holds name with latest together with another attachment of the
\* same release line that still carries latest: its promotion did not demote
\* the predecessor
StuckDoubleLatest(name) ==
    \E i, j \in 1..Len(attachments) :
        /\ i # j
        /\ attachments[j].title = name
        /\ LabelLatest \in attachments[i].labels
        /\ LabelLatest \in attachments[j].labels
        /\ SameLine(parse_testfile_name(name), parse_testfile_name(attachments[i].title))

\* C18: a run whose snapshot was fetched after a promotion that left both the
\* new attachment and its predecessor with latest does not repair that: the
\* check of the uploaded name is rejected with "File exists", the candidate
\* gets no download, upload, label-write or label-removal, and no attachment
\* changes, so both keep latest.
C18_RerunDoesNotRepair ==
    [][(pc = "loop" /\ StuckDoubleLatest(issues[idx]))
          => /\ verdict' = Returned(FALSE, MsgExists, FALSE)
             /\ requests' = <<>>
             /\ store' = store
             /\ BetweenAttachments']_vars

\* C18, witness: in a later run the name of an attachment that an earlier run
\* uploaded and labelled without demoting its predecessor was rejected; both
\* carry latest.
C18_Witness ==
    /\ BetweenAttachments
    /\ verdict = Returned(FALSE, MsgExists, FALSE)
    /\ \E i, j \in 1..Len(store) :
          /\ i < j
          /\ store[j].title = file_name
          /\ store = attachments
          /\ LabelLatest \in store[i].labels
          /\ LabelLatest \in store[j].labels
          /\ SameLine(parse_testfile_name(file_name), parse_testfile_name(store[i].title))

\* the attachment at position k of the store was promoted by the current run:
\* it was uploaded after the snapshot was fetched and carries latest
PromotedInRun(k) ==
    /\ k > Len(attachments)
    /\ LabelLatest \in store[k].labels

\* the attachment at position k carried latest when the snapshot was fetched
LatestAtStart(k) ==
    /\ k <= Len(attachments)
    /\ LabelLatest \in attachments[k].labels

DateOf(title) == DateNumber(parse_testfile_name(title).date)

\* C19: in a run without a failed remote call the newest date wins: of two
\* attachments of one release line promoted by the run, the one promoted later
\* has the strictly later date, and when the run has ended every holder of
\* latest has a date not earlier than that of any attachment of its line that
\* was promoted by the run or carried latest at its start.
C19_NewestDateWins ==
    (all_ok /\ pc \in {"loop", "done"})
        => /\ \A i, j \in 1..Len(store) :
                 (/\ i < j
                  /\ PromotedInRun(i)
                  /\ PromotedInRun(j)
                  /\ SameLine(parse_testfile_name(store[i].title),
                              parse_testfile_name(store[j].title)))
                    => DateOf(store[j].title) > DateOf(store[i].title)
           /\ pc = "done"
                 => \A k, m \in 1..Len(store) :
                        (/\ LabelLatest \in store[k].labels
                         /\ PromotedInRun(m) \/ LatestAtStart(m)
                         /\ SameLine(parse_testfile_name(store[k].title),
                                     parse_testfile_name(store[m].title)))
                           => DateOf(store[k].title) >= DateOf(store[m].title)

\* the verdict is a rejection: file_eligible_for_upload returned False
Rejected(v) == ~v.raised /\ ~v.accepted

\* C20: a rejected candidate has no effect: when file_eligible_for_upload
\* returns False nothing is requested for the candidate, no attachment changes
\* and the run goes to the next candidate; every request that is sent and every
\* change of an attachment belongs to an accepted candidate.
C20_RejectedHasNoEffect ==
    [][/\ (pc = "loop" /\ Rejected(verdict'))
            => /\ requests' = <<>>
               /\ store' = store
               /\ BetweenAttachments'
               /\ idx' = idx + 1
       /\ Len(requests') > Len(requests) => verdict'.accepted
       /\ store' # store => verdict.accepted]_vars

\* C20, witness: a candidate was rejected after its predecessor was consulted;
\* nothing was requested for it, and the predecessor carries latest.
C20_Witness ==
    /\ BetweenAttachments
    /\ verdict = Returned(FALSE, MsgOlder, TRUE)
    /\ requests = <<>>
    /\ store = attachments
    /\ \E k \in 1..Len(store) :
          /\ store[k].title = get_attachment_predecessor(file_name)
          /\ LabelLatest \in store[k].labels

=============================================================================
